---- MODULE Spec2Model ----
(***************************************************************************)
(* A model of aluppol/img_to_text: the classification pipeline of          *)
(* src/src/TextClassifier.py (TextClassifierPipeline: construction,        *)
(* predict, save_model, preprocess_input and the training step) and the    *)
(* extraction entry point of src/src/TextExtractor.py                      *)
(* (TextExtractorPipeline.extract and its helpers).                        *)
(*                                                                         *)
(* Python's None is the empty tuple, an optional value x is <<x>>.         *)
(* A call's outcome is a record with raised / exc fields: an exception is  *)
(* a value the caller can inspect, as the except clauses do.               *)
(* A value that is computed once and used several times is bound by a      *)
(* quantifier over a singleton set, The({body : x \in {value}}).           *)
(***************************************************************************)
EXTENDS Integers, Sequences, FiniteSets, TLC

VARIABLES
  state,      \* lifecycle of the pipeline object: UNINITIALIZED, READY, FAILED
  disk,       \* the artifact stored at model_path: None or <<model>>
  model,      \* self.model: None or <<model>>
  optimizer,  \* self.optimizer: None or <<optimizer>>
  scaler,     \* self.scaler: None (no object), or <<MinMaxScaler state>>
  last,       \* the last operation: its name, inputs, pre-state and outcome
  fs,         \* what lies at the path handed to extract
  xlast       \* the last extract call: its inputs and outcome

vars == <<state, disk, model, optimizer, scaler, last, fs, xlast>>

clsVars == <<state, disk, model, optimizer, scaler, last>>
extVars == <<fs, xlast>>

None == <<>>
Some(x) == <<x>>
The(S) == CHOOSE x \in S : TRUE

\* ------------------------------------------------------------------ bounds
MaxBatch == 2        \* longest batch handed to preprocess_input / predict
MaxData == 3         \* most records in a training dataset file
MaxEpochs == 2       \* largest epochs argument
MaxWindow == 2       \* largest batch_window_size
MaxRounds == 2       \* largest rounds argument
MaxRows == 1         \* most rows of texts, features and labels handed to a model call
MaxSteps == 2        \* optimizer steps a pipeline is followed for
MaxPages == 3        \* most pages in a PDF
NumClasses == 2      \* num_classes passed to the constructor

Min2(a, b) == IF a < b THEN a ELSE b
Max2(a, b) == IF a > b THEN a ELSE b

\* ------------------------------------------------------------- FeaturedText
\* FeaturedText records (TextExtractor.py:16-21); TrainingData adds a label.
FeaturedText(text, size, flags, bbox, page, label) ==
  [text |-> text, size |-> size, flags |-> flags, bbox |-> bbox, page |-> page,
   label |-> label]

Sample1 == FeaturedText("Title", 10, 0, <<0, 0, 10, 10>>, 1, "chapter_title")
Sample2 == FeaturedText("Body", 12, 4, <<0, 10, 20, 30>>, 1, "main_text")
Sample3 == FeaturedText("Note", 14, 0, <<5, 30, 20, 40>>, 2, "main_text")

Samples == {Sample1, Sample2, Sample3}

SeqsUpTo(S, n) == UNION {[1..k -> S] : k \in 0..n}

Batches == SeqsUpTo(Samples, MaxBatch)

\* The i-th record of a dataset file: the samples, repeated in order.
CorpusAt(i) == CASE i % 3 = 1 -> Sample1 [] i % 3 = 2 -> Sample2 [] OTHER -> Sample3
Dataset(d) == [i \in 1..d |-> CorpusAt(i)]

\* LabelTransformer.label_to_int: the external string -> class index mapping.
label_to_int(label) == IF label = "chapter_title" THEN 0 ELSE 1

\* --------------------------------------------------------- outcomes of calls
Ok(v) == [raised |-> FALSE, exc |-> "", value |-> v]
Raise(e) == [raised |-> TRUE, exc |-> e, value |-> None]

\* ------------------------------------------------------------ MinMaxScaler
NumCols == 7

\* One row of numeric features: [size, flags, page] + list(bbox).
FeatureRow(fte) == <<fte.size, fte.flags, fte.page>> \o fte.bbox

NumericFeatures(featured_text) ==
  [i \in 1..Len(featured_text) |-> FeatureRow(featured_text[i])]

ColMin(X, c) == CHOOSE v \in {X[i][c] : i \in 1..Len(X)} :
                  \A i \in 1..Len(X) : v <= X[i][c]
ColMax(X, c) == CHOOSE v \in {X[i][c] : i \in 1..Len(X)} :
                  \A i \in 1..Len(X) : v >= X[i][c]

Unfitted == [fitted |-> FALSE, data_min |-> <<>>, data_max |-> <<>>]

\* MinMaxScaler.partial_fit on a scaler that was fitted before: the minima and
\* maxima seen so far are merged with those of X.
PartialFit(sc, X) ==
  [fitted |-> TRUE,
   data_min |-> [c \in 1..NumCols |->
                   IF sc.fitted THEN Min2(sc.data_min[c], ColMin(X, c)) ELSE ColMin(X, c)],
   data_max |-> [c \in 1..NumCols |->
                   IF sc.fitted THEN Max2(sc.data_max[c], ColMax(X, c)) ELSE ColMax(X, c)]]

\* fit without the _reset(): what earlier batches left in the scaler is merged in.
FitWithoutReset(sc, X) == PartialFit(sc, X)

\* MinMaxScaler.fit: _reset() drops what was fitted before, then partial_fit.
Fit(sc, X) == PartialFit(Unfitted, X)

\* MinMaxScaler.transform: X * scale_ + min_ with scale_ = 1 / (data_max - data_min)
\* and min_ = -data_min * scale_; a zero range is replaced by 1. The quotient is kept
\* exact, as the pair <<numerator, denominator>>.
Transform(sc, X) ==
  [i \in 1..Len(X) |->
     [c \in 1..NumCols |->
        LET range == sc.data_max[c] - sc.data_min[c]
        IN <<X[i][c] - sc.data_min[c], IF range = 0 THEN 1 ELSE range>>]]

\* self.scaler.fit_transform(numeric_features): an empty list is a 1-D array of no
\* samples, which the input validation refuses after the reset.
fit_transform(sc, X) ==
  IF Len(X) = 0
    THEN [raised |-> TRUE, exc |-> "ValueError", scaler |-> Unfitted, value |-> <<>>]
    ELSE The({[raised |-> FALSE, exc |-> "", scaler |-> fitted,
               value |-> Transform(fitted, X)] : fitted \in {Fit(sc, X)}})

\* TextClassifierPipeline.preprocess_input
preprocess_input(sc, featured_text) ==
  LET text_data == [i \in 1..Len(featured_text) |-> featured_text[i].text]
      numeric_features == NumericFeatures(featured_text)
  IN The({[raised |-> normalized_features.raised, exc |-> normalized_features.exc,
           scaler |-> normalized_features.scaler,
           text_data |-> text_data, features |-> normalized_features.value] :
          normalized_features \in {fit_transform(sc, numeric_features)}})

\* ------------------------------------------------------- model and optimizer
\* TextClassifierModel(...): a new module is in training mode and holds no gradients.
NewModel == [weights |-> "initialized", updates |-> 0, training |-> TRUE, grads |-> "none"]

\* What may lie at model_path before the program first runs: a model saved earlier,
\* in either mode.
Artifacts == {[weights |-> "pretrained", updates |-> 0, training |-> t, grads |-> "none"] :
                t \in BOOLEAN}

\* torch.save(self.model, path) pickles the whole module; gradients are not part of it.
Pickle(m) == [m EXCEPT !.grads = "none"]

\* torch.load(self.model_path)
torch_load(diskv) == diskv[1]

\* torch.optim.Adam(self.model.parameters(), lr=1e-4): no step taken, bound to m's parameters.
Adam(m) == [steps |-> 0, params_of |-> m.weights]

\* The keyword arguments both tokenizer calls pass (TextClassifier.py:82 and :107).
TokenizerKwargs == {"return_tensor", "padding", "truncation"}

\* self.tokenizer(text_data, **kwargs): the encoding holds tensors only when
\* return_tensors is given; any other keyword leaves it holding Python lists.
Tokenizer(text_data, kwargs) ==
  [rows |-> Len(text_data), tensors |-> "return_tensors" \in kwargs]

\* TextClassifierModel.forward: self.bert(**text) needs tensors; torch.cat needs as many
\* numeric rows as text rows. The logits have one row per text.
forward(text, numeric_features) ==
  IF ~text.tensors THEN Raise("AttributeError")
  ELSE IF Len(numeric_features) # text.rows THEN Raise("RuntimeError")
  ELSE Ok(text.rows)

\* nn.CrossEntropyLoss()(outputs, labels_tensor): batch sizes must agree.
loss_fn(outputs, labels) ==
  IF outputs.value # Len(labels) THEN Raise("ValueError") ELSE Ok("loss")

zero_grad(m) == [m EXCEPT !.grads = "cleared"]
backward(m) == [m EXCEPT !.grads = "set"]
\* self.optimizer.step(): one update of the parameters the optimizer is bound to.
step(m, o) == [model |-> [m EXCEPT !.updates = @ + 1],
               optimizer |-> [o EXCEPT !.steps = @ + 1]]

DefaultEpochs == 5

\* The loop of __train_model: the epochs still to run, the trace of what ran so far.
RECURSIVE TrainEpochs(_, _, _, _, _, _, _)
TrainEpochs(m, o, text_data, numeric_features, labels, epochs, log) ==
  IF epochs <= 0
    THEN [raised |-> FALSE, exc |-> "", model |-> m, optimizer |-> o, log |-> log]
    ELSE The({
      IF outputs.raised
        THEN [raised |-> TRUE, exc |-> outputs.exc, model |-> m, optimizer |-> o,
              log |-> log]
      ELSE IF loss_fn(outputs, labels).raised
        THEN [raised |-> TRUE, exc |-> loss_fn(outputs, labels).exc, model |-> m,
              optimizer |-> o, log |-> log \o <<"forward">>]
      ELSE The({TrainEpochs(stepped.model, stepped.optimizer, text_data, numeric_features,
                            labels, epochs - 1,
                            log \o <<"forward", "loss", "zero_grad", "backward", "step">>) :
                stepped \in {step(backward(zero_grad(m)), o)}}) :
      outputs \in {forward(Tokenizer(text_data, TokenizerKwargs), numeric_features)}})

\* TextClassifierPipeline.__train_model
__train_model(m, o, text_data, numeric_features, labels, epochs) ==
  TrainEpochs([m EXCEPT !.training = TRUE], o, text_data, numeric_features, labels,
              epochs, <<>>)

\* predict run as a training iteration would be: the pass leaves gradients and an update.
PredictUpdating(m, text_data, numeric_features, classes) ==
  [raised |-> forward(Tokenizer(text_data, TokenizerKwargs), numeric_features).raised,
   exc |-> forward(Tokenizer(text_data, TokenizerKwargs), numeric_features).exc,
   model |-> [m EXCEPT !.training = FALSE, !.grads = "set", !.updates = @ + 1],
   value |-> <<>>]

\* TextClassifierPipeline.predict; classes is what argmax yields, one class per row.
predict(m, text_data, numeric_features, classes) ==
  LET evalm == [m EXCEPT !.training = FALSE]
  IN The({
       IF prediction.raised
         THEN [raised |-> TRUE, exc |-> prediction.exc, model |-> evalm, value |-> <<>>]
         ELSE [raised |-> FALSE, exc |-> "", model |-> evalm,
               value |-> [i \in 1..prediction.value |-> classes[i]]] :
       prediction \in {forward(Tokenizer(text_data, TokenizerKwargs), numeric_features)}})

\* A call of save_model(self) with extra_args positional arguments besides self.
save_model(m, diskv, extra_args) ==
  IF extra_args # 0
    THEN [raised |-> TRUE, exc |-> "TypeError", disk |-> diskv, saved |-> 0]
    ELSE [raised |-> FALSE, exc |-> "", disk |-> Some(Pickle(m)), saved |-> 1]

\* pretrain_model: set only on the branch that found no artifact.
PretrainAlways(exists) == TRUE
PretrainModel(exists) == ~exists

\* TextClassifierPipeline.__init__ against what lies at model_path.
Construct(diskv) ==
  LET exists == diskv # None
      sc == Unfitted
      m == IF exists THEN torch_load(diskv) ELSE NewModel
      pretrain_model == PretrainModel(exists)
      o == Adam(m)
      training_dataset == <<>>
      labels == [i \in 1..Len(training_dataset) |-> label_to_int(training_dataset[i].label)]
      base == [raised |-> FALSE, exc |-> "", model |-> m, optimizer |-> o, scaler |-> sc,
               disk |-> diskv, saves |-> 0, trainCalls |-> 0]
  IN IF ~pretrain_model THEN base
     ELSE The({
       IF pre.raised
         THEN [base EXCEPT !.raised = TRUE, !.exc = pre.exc, !.scaler = pre.scaler]
       ELSE The({
         IF tr.raised
           THEN [base EXCEPT !.raised = TRUE, !.exc = tr.exc, !.scaler = pre.scaler,
                             !.model = tr.model, !.optimizer = tr.optimizer,
                             !.trainCalls = 1]
         ELSE The({[base EXCEPT !.raised = sv.raised, !.exc = sv.exc,
                                !.scaler = pre.scaler, !.model = tr.model,
                                !.optimizer = tr.optimizer, !.trainCalls = 1,
                                !.disk = sv.disk, !.saves = sv.saved] :
                   sv \in {save_model(tr.model, diskv, 1)}}) :
         tr \in {__train_model(m, o, pre.text_data, pre.features, labels,
                               DefaultEpochs)}}) :
       pre \in {preprocess_input(sc, training_dataset)}})

\* The object's fields before a call, kept with the call's record.
Pre == [model |-> model, optimizer |-> optimizer, scaler |-> scaler, disk |-> disk]

\* ----------------------------------------------------------------- actions
\* TextClassifierPipeline(model_path, ...): a process constructs its pipeline.
ConstructCall ==
  \E r \in {Construct(disk)} :
     /\ state' = IF r.raised THEN "FAILED" ELSE "READY"
     /\ disk' = r.disk
     /\ model' = Some(r.model)
     /\ optimizer' = Some(r.optimizer)
     /\ scaler' = Some(r.scaler)
     /\ last' = [op |-> "construct", existed |-> disk # None, pre |-> Pre,
                 raised |-> r.raised, exc |-> r.exc,
                 saves |-> r.saves, trainCalls |-> r.trainCalls]
     /\ UNCHANGED extVars

\* pipeline.predict(text_data, numeric_features)
PredictCall ==
  /\ state = "READY"
  /\ \E nT \in 0..MaxRows, nF \in 0..MaxRows :
       \E classes \in [1..nT -> 0..(NumClasses - 1)] :
         \E r \in {predict(model[1], [i \in 1..nT |-> Dataset(nT)[i].text],
                             NumericFeatures(Dataset(nF)), classes)} :
            /\ model' = Some(r.model)
            /\ last' = [op |-> "predict", texts |-> nT, rows |-> nF, pre |-> Pre,
                        raised |-> r.raised, exc |-> r.exc, value |-> r.value]
  /\ UNCHANGED <<state, disk, optimizer, scaler, extVars>>

\* pipeline.save_model()
SaveModelCall ==
  /\ state = "READY"
  /\ \E r \in {save_model(model[1], disk, 0)} :
        /\ disk' = r.disk
        /\ last' = [op |-> "save_model", pre |-> Pre, raised |-> r.raised, exc |-> r.exc]
  /\ UNCHANGED <<state, model, optimizer, scaler, extVars>>

\* pipeline.preprocess_input(featured_text)
PreprocessInputCall ==
  /\ state = "READY"
  /\ \E featured_text \in Batches :
       \E r \in {preprocess_input(scaler[1], featured_text)} :
          /\ scaler' = Some(r.scaler)
          /\ last' = [op |-> "preprocess_input", batch |-> featured_text, pre |-> Pre,
                      raised |-> r.raised, exc |-> r.exc, text_data |-> r.text_data,
                      features |-> r.features]
  /\ UNCHANGED <<state, disk, model, optimizer, extVars>>

\* One call of the training step, __train_model(text_data, numeric_features, labels, epochs).
TrainStepCall ==
  /\ state = "READY"
  /\ \E nT \in 0..MaxRows, nF \in 0..MaxRows, nL \in 0..MaxRows, epochs \in 0..MaxEpochs :
       /\ optimizer[1].steps < MaxSteps
       /\ \E r \in {__train_model(model[1], optimizer[1],
                                    [i \in 1..nT |-> Dataset(nT)[i].text],
                                    NumericFeatures(Dataset(nF)),
                                    [i \in 1..nL |-> label_to_int(Dataset(nL)[i].label)],
                                    epochs)} :
             /\ model' = Some(r.model)
             /\ optimizer' = Some(r.optimizer)
             /\ last' = [op |-> "train_step", texts |-> nT, rows |-> nF, labels |-> nL,
                         epochs |-> epochs, pre |-> Pre, raised |-> r.raised,
                         exc |-> r.exc, log |-> r.log]
  /\ UNCHANGED <<state, disk, scaler, extVars>>

\* ------------------------------------------------- train_model, windowed mode
\* range(start, D, W) turned into the windows dataset[i : i + W], as index sequences.
RECURSIVE Windows(_, _, _)
Windows(start, D, W) ==
  IF start >= D THEN <<>>
  ELSE <<[k \in 1..(Min2(start + W, D) - start) |-> start + k]>> \o Windows(start + W, D, W)

RECURSIVE Repeat(_, _)
Repeat(seq, n) == IF n <= 0 THEN <<>> ELSE seq \o Repeat(seq, n - 1)

\* The windows still to train on, one training-step call each; the first failure ends
\* the run and is handed to the caller.
RECURSIVE TrainWindows(_, _, _, _, _, _, _)
TrainWindows(m, o, sc, dataset, plan, epochs, calls) ==
  IF plan = <<>>
    THEN [raised |-> FALSE, exc |-> "", model |-> m, optimizer |-> o, scaler |-> sc,
          calls |-> calls]
    ELSE
      LET window == [k \in 1..Len(plan[1]) |-> dataset[plan[1][k]]]
          labels == [k \in 1..Len(window) |-> label_to_int(window[k].label)]
      IN The({
        IF pre.raised
          THEN [raised |-> TRUE, exc |-> pre.exc, model |-> m, optimizer |-> o,
                scaler |-> pre.scaler, calls |-> calls]
        ELSE The({
          IF tr.raised
            THEN [raised |-> TRUE, exc |-> tr.exc, model |-> tr.model,
                  optimizer |-> tr.optimizer, scaler |-> pre.scaler,
                  calls |-> Append(calls, plan[1])]
            ELSE TrainWindows(tr.model, tr.optimizer, pre.scaler, dataset, Tail(plan),
                              epochs, Append(calls, plan[1])) :
          tr \in {__train_model(m, o, pre.text_data, pre.features, labels, epochs)}}) :
        pre \in {preprocess_input(sc, window)}})

\* train_model(training_dataset_path, epochs, batch_window_size, randomized=False, rounds)
train_model(m, o, sc, diskv, dataset, epochs, batch_window_size, rounds) ==
  LET plan == Repeat(Windows(0, Len(dataset), batch_window_size), rounds)
  IN The({[raised |-> run.raised, exc |-> run.exc, model |-> run.model,
           optimizer |-> run.optimizer, scaler |-> run.scaler, calls |-> run.calls,
           disk |-> IF run.raised THEN diskv ELSE save_model(run.model, diskv, 0).disk] :
          run \in {TrainWindows(m, o, sc, dataset, plan, epochs, <<>>)}})

\* pipeline.train_model(path, epochs, batch_window_size, False, rounds) on a dataset file
\* of D records.
TrainModelCall ==
  /\ state = "READY"
  /\ \E D \in 0..MaxData, W \in 1..MaxWindow, epochs \in 0..MaxEpochs, rounds \in 1..MaxRounds :
       /\ optimizer[1].steps < MaxSteps
       /\ \E r \in {train_model(model[1], optimizer[1], scaler[1], disk, Dataset(D),
                                  epochs, W, rounds)} :
             /\ model' = Some(r.model)
             /\ optimizer' = Some(r.optimizer)
             /\ scaler' = Some(r.scaler)
             /\ disk' = r.disk
             /\ last' = [op |-> "train_model", D |-> D, W |-> W, epochs |-> epochs,
                         rounds |-> rounds, pre |-> Pre, raised |-> r.raised,
                         exc |-> r.exc, calls |-> r.calls]
  /\ UNCHANGED <<state, extVars>>

\* ---------------------------------------------------------- TextExtractor
\* What may lie at the path handed to extract.
File(exists, is_file, suffix, readable, pages) ==
  [exists |-> exists, is_file |-> is_file, suffix |-> suffix, readable |-> readable,
   pages |-> pages]

Files ==
  {File(FALSE, FALSE, ".pdf", FALSE, 0), File(TRUE, FALSE, "", FALSE, 0),
   File(TRUE, TRUE, ".txt", TRUE, 0), File(TRUE, TRUE, ".png", TRUE, 0),
   File(TRUE, TRUE, ".png", FALSE, 0), File(TRUE, TRUE, ".pdf", FALSE, 0)}
  \cup {File(TRUE, TRUE, ".pdf", TRUE, n) : n \in 1..MaxPages}

\* set(Image.registered_extensions()), as far as the files above go.
picture_extensions == {".png", ".jpg"}

\* Python's truth test of an optional integer: None and 0 are false.
Falsy(x) == x = None \/ x = Some(0)

\* slice.indices(n) of one bound of a slice with step 1.
SliceBound(i, n) == IF i < 0 THEN Max2(i + n, 0) ELSE Min2(i, n)

\* doc[start : stop]: the page indices the slice selects, in order.
DocSlice(start, stop, n) ==
  LET lo == SliceBound(start, n)
      hi == SliceBound(stop, n)
  IN [k \in 1..(hi - lo) |-> lo + k - 1]

\* TextExtractorPipeline.__pdf_to_text; every page holds one span, whose page field is
\* page.number + 1. value lists those fields, pages the page indices read.
__pdf_to_text(file, from_page, to_page) ==
  IF ~file.readable THEN Raise("UnboundLocalError")
  ELSE
    LET last_page_num == file.pages - 1
        from == IF Falsy(from_page) THEN 0 ELSE from_page[1]
        to == IF Falsy(to_page) THEN last_page_num ELSE to_page[1]
    IN The({[raised |-> FALSE, exc |-> "", pages |-> pages,
             value |-> [k \in 1..Len(pages) |-> pages[k] + 1]] :
            pages \in {DocSlice(from, to + 1, file.pages)}})

\* TextExtractorPipeline.__picture_to_text
__picture_to_text(file) ==
  IF ~file.readable THEN Raise("ValueError") ELSE Ok("text")

\* TextExtractorPipeline.__validate_file_path
__validate_file_path(file, expected_extensions) ==
  IF ~file.exists THEN Raise("FileNotFoundError")
  ELSE IF ~file.is_file THEN Raise("IsADirectoryError")
  ELSE IF expected_extensions # {} /\ file.suffix \notin expected_extensions
    THEN Raise("UnsupportedExtensionError")
  ELSE Ok(file)

\* The except clauses of extract, in order.
ExceptClauses(exc) ==
  IF exc \in {"UnsupportedExtensionError", "NotImplementedExtensionError"} THEN "ValueError"
  ELSE IF exc = "UnidentifiedImageError" THEN "ValueError"
  ELSE "RuntimeError"

\* TextExtractorPipeline.extract
extract(file, from_page, to_page) ==
  LET supported_extensions == picture_extensions \cup {".pdf"}
      failed(exc) == [raised |-> TRUE, exc |-> exc, pages |-> <<>>, value |-> <<>>]
  IN The({
       IF body.raised THEN [body EXCEPT !.exc = ExceptClauses(body.exc)] ELSE body :
       body \in {
         The({
           IF path.raised THEN failed(path.exc)
           ELSE IF file.suffix = ".pdf"
             THEN The({IF r.raised THEN failed(r.exc) ELSE r :
                       r \in {__pdf_to_text(file, from_page, to_page)}})
           ELSE IF file.suffix \in picture_extensions
             THEN The({IF r.raised THEN failed(r.exc)
                       ELSE [raised |-> FALSE, exc |-> "", pages |-> <<>>, value |-> r.value] :
                       r \in {__picture_to_text(file)}})
           ELSE failed("NotImplementedExtensionError") :
           path \in {__validate_file_path(file, supported_extensions)}})}})

PageArgs == {None} \cup {Some(n) : n \in (-1)..MaxPages}

\* TextExtractorPipeline.extract(file_path, from_page, to_page)
ExtractCall ==
  /\ \E from_page \in PageArgs, to_page \in PageArgs :
       \E r \in {extract(fs[1], from_page, to_page)} :
          xlast' = Some([from_page |-> from_page, to_page |-> to_page, raised |-> r.raised,
                         exc |-> r.exc, pages |-> r.pages, value |-> r.value])
  /\ UNCHANGED <<fs, clsVars>>

Init ==
  /\ state = "UNINITIALIZED"
  /\ disk \in {None} \cup {Some(a) : a \in Artifacts}
  /\ model = None
  /\ optimizer = None
  /\ scaler = None
  /\ last = [op |-> "none"]
  /\ fs = None
  /\ xlast = None

Next ==
  \/ ConstructCall
  \/ PredictCall
  \/ SaveModelCall
  \/ PreprocessInputCall
  \/ TrainStepCall

Spec == Init /\ [][Next]_vars

\* The pipeline with train_model, the driver of the training step over a dataset file.
NextTrainModel ==
  \/ Next
  \/ TrainModelCall

SpecTrainModel == Init /\ [][NextTrainModel]_vars

\* The extractor alone: the pipeline is not constructed, a file lies at the path.
InitExtractor ==
  /\ state = "UNINITIALIZED"
  /\ disk = None
  /\ model = None
  /\ optimizer = None
  /\ scaler = None
  /\ last = [op |-> "none"]
  /\ fs \in {Some(f) : f \in Files}
  /\ xlast = None

NextExtractor == ExtractCall

SpecExtractor == InitExtractor /\ [][NextExtractor]_vars
\* ------------------------------------------------------------------ claims
Phases == <<"forward", "loss", "zero_grad", "backward", "step">>

CeilDiv(a, b) == (a + b - 1) \div b

\* C1: constructing against a path that holds no artifact ends only after the fresh
\* model has gone through at least one optimizer step and has been saved to the path.
C1_FreshConstructTrainsAndSaves ==
  (last.op = "construct" /\ ~last.existed) =>
     /\ last.trainCalls >= 1
     /\ optimizer[1].steps >= 1
     /\ last.saves >= 1
     /\ disk = Some(Pickle(model[1]))

\* C2: constructing against a path that holds an artifact returns with that artifact as
\* the model, having called neither the training step nor torch.save, the artifact left
\* as it was, and with a new optimizer (no step taken) bound to the loaded parameters.
C2_ExistingArtifactIsLoadedOnly ==
  (last.op = "construct" /\ last.existed) =>
     /\ state = "READY"
     /\ ~last.raised
     /\ model = last.pre.disk
     /\ last.trainCalls = 0
     /\ last.saves = 0
     /\ disk = last.pre.disk
     /\ optimizer[1].steps = 0
     /\ optimizer[1].params_of = model[1].weights

\* A second pipeline constructed over an artifact that an earlier pipeline saved while
\* its model was in training mode.
C2_Witness ==
  /\ last.op = "construct"
  /\ last.existed
  /\ last.pre.model # None
  /\ disk[1].training
  /\ state = "READY"

\* C3, as stated: predict leaves the model (parameters and mode) and the optimizer
\* exactly as they were before the call.
C3_PredictLeavesModelAndOptimizer ==
  last.op = "predict" =>
     /\ model = last.pre.model
     /\ optimizer = last.pre.optimizer

\* C3, amended: predict leaves the parameters, the gradients, the optimizer, the scaler
\* and the artifact as they were, and leaves the model in evaluation mode.
C3_PredictKeepsParameters ==
  last.op = "predict" =>
     /\ model[1].weights = last.pre.model[1].weights
     /\ model[1].updates = last.pre.model[1].updates
     /\ model[1].grads = last.pre.model[1].grads
     /\ ~model[1].training
     /\ optimizer = last.pre.optimizer
     /\ scaler = last.pre.scaler
     /\ disk = last.pre.disk

\* A predict call on a model that a training call had left in training mode, after the
\* scaler was fitted.
C3_Witness ==
  /\ last.op = "predict"
  /\ last.pre.model[1].training
  /\ last.pre.scaler[1].fitted
  /\ last.texts = last.rows
  /\ last.texts > 0

\* C4: one round of windowed training on D records with window size W calls the training
\* step ceil(D/W) times, on consecutive windows in dataset order, the last one holding
\* what is left, none reaching past the end, every record in exactly one window.
C4_WindowedCoverage ==
  (last.op = "train_model" /\ last.rounds = 1) =>
     /\ Len(last.calls) = CeilDiv(last.D, last.W)
     /\ \A k \in 1..Len(last.calls) :
          /\ Len(last.calls[k]) =
               IF k < CeilDiv(last.D, last.W) \/ last.D % last.W = 0
                 THEN last.W ELSE last.D % last.W
          /\ \A j \in 1..Len(last.calls[k]) : last.calls[k][j] = (k - 1) * last.W + j
     /\ \A i \in 1..last.D :
          Cardinality({<<k, j>> \in (1..Len(last.calls)) \X (1..last.W) :
                         j <= Len(last.calls[k]) /\ last.calls[k][j] = i}) = 1

\* C5: a non-empty batch is normalized with its own column minima and maxima, whatever
\* the scaler was fitted to before: in a column with two distinct values every
\* normalized value is in [0,1], the minimum maps to 0 and the maximum to 1.
C5_BatchMinMax ==
  (last.op = "preprocess_input" /\ Len(last.batch) > 0) =>
     /\ ~last.raised
     /\ Len(last.features) = Len(last.batch)
     /\ \A c \in 1..NumCols :
          LET X == NumericFeatures(last.batch)
              rows == 1..Len(X)
          IN (\E i, j \in rows : X[i][c] # X[j][c]) =>
               \A i \in rows :
                 LET num == last.features[i][c][1]
                     den == last.features[i][c][2]
                 IN /\ den > 0
                    /\ 0 <= num
                    /\ num <= den
                    /\ (\A j \in rows : X[i][c] <= X[j][c]) => num = 0
                    /\ (\A j \in rows : X[i][c] >= X[j][c]) => num = den

\* A batch of two different records preprocessed by a scaler that an earlier call had
\* fitted to other minima or maxima.
C5_Witness ==
  /\ last.op = "preprocess_input"
  /\ Len(last.batch) = 2
  /\ last.batch[1] # last.batch[2]
  /\ last.pre.scaler[1].fitted
  /\ last.pre.scaler # scaler

\* C6: preprocess_input changes no state that outlives the call, in particular no field
\* of the pipeline object.
C6_PreprocessHasNoSideEffect ==
  last.op = "preprocess_input" =>
     /\ scaler = last.pre.scaler
     /\ model = last.pre.model
     /\ optimizer = last.pre.optimizer
     /\ disk = last.pre.disk

\* C7: a training-step call whose label count or numeric row count differs from the
\* number of texts fails with ShapeMismatchError.
C7_ShapeMismatchError ==
  (last.op = "train_step" /\ (last.labels # last.texts \/ last.rows # last.texts)) =>
     /\ last.raised
     /\ last.exc = "ShapeMismatchError"

\* C8: on a PDF, with each bound omitted or inside the document, extract reads exactly
\* the pages from_page..to_page, an omitted from_page standing for the first page and an
\* omitted to_page for the last.
C8_InclusivePageBounds ==
  (/\ xlast # None
   /\ fs[1].suffix = ".pdf" /\ fs[1].exists /\ fs[1].is_file /\ fs[1].readable
   /\ xlast[1].from_page \in {None} \cup {Some(n) : n \in 0..(fs[1].pages - 1)}
   /\ xlast[1].to_page \in {None} \cup {Some(n) : n \in 0..(fs[1].pages - 1)}) =>
     LET lo == IF xlast[1].from_page = None THEN 0 ELSE xlast[1].from_page[1]
         hi == IF xlast[1].to_page = None THEN fs[1].pages - 1 ELSE xlast[1].to_page[1]
     IN /\ ~xlast[1].raised
        /\ xlast[1].pages = [k \in 1..(hi - lo + 1) |-> lo + k - 1]

\* C9: extract raises FileNotFoundError for a path that does not exist and
\* IsADirectoryError for a path that exists and is not a file.
C9_PathErrorsReachCaller ==
  xlast # None =>
     /\ ~fs[1].exists => (xlast[1].raised /\ xlast[1].exc = "FileNotFoundError")
     /\ (fs[1].exists /\ ~fs[1].is_file) =>
          (xlast[1].raised /\ xlast[1].exc = "IsADirectoryError")

\* C10: a training-step call with epochs = E on consistent inputs runs E iterations, each
\* forward, loss, zero_grad, backward, step, and adds E steps to those the optimizer had
\* taken, on the same model.
C10_EpochsAccumulate ==
  (last.op = "train_step" /\ last.texts = last.rows /\ last.texts = last.labels) =>
     /\ ~last.raised
     /\ last.log = Repeat(Phases, last.epochs)
     /\ optimizer[1].steps = last.pre.optimizer[1].steps + last.epochs
     /\ model[1].updates = last.pre.model[1].updates + last.epochs
     /\ model[1].weights = last.pre.model[1].weights
====
